---- MODULE Spec2Model ----
(***************************************************************************)
(* Token acquisition and caching of the Skribble SDK: the in-memory token  *)
(* cache (_InMemoryTokenCache), the login exchange (TokenManager._login),  *)
(* the cache key (TokenManager._cache_key) and get_access_token.           *)
(*                                                                         *)
(* Python values are records tagged with their type.  A str is a sequence  *)
(* of code points, a bytes object a sequence of octets, so that encoding   *)
(* and decoding are computed and not assumed.                              *)
(***************************************************************************)
EXTENDS Integers, Sequences, FiniteSets

----------------------------------------------------------------------------
(* Bounds of the model. *)

\* the clock runs from 0 to MaxTime
MaxTime == 2
\* threads calling the in-memory cache directly
NumThreads == 2
\* concurrent get_access_token calls
NumCalls == 2

----------------------------------------------------------------------------
(* Python values. *)

PyNone == [type |-> "NoneType"]
PyStr(s) == [type |-> "str", v |-> s]
PyBytes(b) == [type |-> "bytes", v |-> b]
PyInt(n) == [type |-> "int", v |-> n]
PyDict(f) == [type |-> "dict", v |-> f]
PyList(l) == [type |-> "list", v |-> l]

\* bool(x): None, "", b"", 0, {} and [] are false
Truthy(x) ==
    CASE x.type = "NoneType" -> FALSE
      [] x.type \in {"str", "bytes", "bytearray", "list"} -> Len(x.v) > 0
      [] x.type = "int" -> x.v # 0
      [] x.type = "dict" -> DOMAIN x.v # {}
      [] OTHER -> TRUE

\* a or b
PyOr(a, b) == IF Truthy(a) THEN a ELSE b

RECURSIVE Digits(_)
\* the decimal digits of a natural number, as code points
Digits(n) == IF n < 10 THEN <<48 + n>> ELSE Digits(n \div 10) \o <<48 + (n % 10)>>

\* str(x) of a str, an int or None
StrOf(x) ==
    CASE x.type = "str" -> x.v
      [] x.type = "int" -> IF x.v < 0 THEN <<45>> \o Digits(0 - x.v) ELSE Digits(x.v)
      [] x.type = "NoneType" -> <<78, 111, 110, 101>>

\* what a call gives its caller: a value, or an exception of a type
Return(value) == [kind |-> "return", value |-> value]
Raise(type) == [kind |-> "raise", type |-> type]

\* a lone surrogate, which no codec of UTF-8 accepts
IsSurrogate(c) == c >= 55296 /\ c <= 57343

\* the UTF-8 octets of one code point, or ok = FALSE for UnicodeEncodeError
EncodeCodePoint(c) ==
    IF c < 128 THEN [ok |-> TRUE, v |-> <<c>>]
    ELSE IF c < 2048 THEN [ok |-> TRUE, v |-> <<192 + (c \div 64), 128 + (c % 64)>>]
    ELSE IF IsSurrogate(c) THEN [ok |-> FALSE, v |-> <<>>]
    ELSE IF c < 65536
      THEN [ok |-> TRUE,
            v |-> <<224 + (c \div 4096), 128 + ((c \div 64) % 64), 128 + (c % 64)>>]
    ELSE [ok |-> TRUE,
          v |-> <<240 + (c \div 262144), 128 + ((c \div 4096) % 64),
                  128 + ((c \div 64) % 64), 128 + (c % 64)>>]

RECURSIVE Utf8Encode(_)
\* s.encode("utf-8"): the octets, or ok = FALSE for UnicodeEncodeError
Utf8Encode(s) ==
    IF s = <<>> THEN [ok |-> TRUE, v |-> <<>>]
    ELSE LET first == EncodeCodePoint(Head(s))
             rest == Utf8Encode(Tail(s))
         IN IF first.ok /\ rest.ok THEN [ok |-> TRUE, v |-> first.v \o rest.v]
            ELSE [ok |-> FALSE, v |-> <<>>]

IsContinuation(b) == b >= 128 /\ b < 192

RECURSIVE Utf8Decode(_)
\* b.decode("utf-8"): the code points, or ok = FALSE for UnicodeDecodeError (a stray
\* or missing continuation octet, an overlong form, an encoded surrogate, a code
\* point above 0x10FFFF)
Utf8Decode(b) ==
    IF b = <<>> THEN [ok |-> TRUE, v |-> <<>>]
    ELSE LET b1 == b[1]
             step(n, c) ==
                 LET rest == Utf8Decode(SubSeq(b, n + 1, Len(b)))
                 IN IF rest.ok THEN [ok |-> TRUE, v |-> <<c>> \o rest.v]
                    ELSE [ok |-> FALSE, v |-> <<>>]
             bad == [ok |-> FALSE, v |-> <<>>]
             c2 == (b1 - 192) * 64 + (b[2] - 128)
             c3 == (b1 - 224) * 4096 + (b[2] - 128) * 64 + (b[3] - 128)
             c4 == (b1 - 240) * 262144 + (b[2] - 128) * 4096 + (b[3] - 128) * 64
                   + (b[4] - 128)
         IN IF b1 < 128 THEN step(1, b1)
            ELSE IF b1 >= 194 /\ b1 < 224
              THEN IF Len(b) >= 2 /\ IsContinuation(b[2]) THEN step(2, c2) ELSE bad
            ELSE IF b1 >= 224 /\ b1 < 240
              THEN IF Len(b) >= 3 /\ IsContinuation(b[2]) /\ IsContinuation(b[3])
                      /\ c3 >= 2048 /\ ~IsSurrogate(c3)
                     THEN step(3, c3)
                     ELSE bad
            ELSE IF b1 >= 240 /\ b1 < 245
              THEN IF Len(b) >= 4 /\ IsContinuation(b[2]) /\ IsContinuation(b[3])
                      /\ IsContinuation(b[4]) /\ c4 >= 65536 /\ c4 <= 1114111
                     THEN step(4, c4)
                     ELSE bad
            ELSE bad

----------------------------------------------------------------------------
(* State. *)

VARIABLES
    \* _InMemoryTokenCache._data: key -> (expires_at, value)
    _data,
    \* time.time()
    now,
    \* _InMemoryTokenCache._lock: 0 when free, else the thread holding it
    _lock,
    \* the call holding the lock: its arguments; what the cache call that just ended
    \* handed its caller (the value of a get, the exception of a setex)
    targ, lastGet,
    \* history: per key, the most recent setex (time, ttl_seconds, payload, writer)
    lastSetex,
    \* the login exchange on its own: the response and what _login made of it
    resp, outcome,
    \* the configuration and the TokenManagers built with it
    cfg, mgr,
    \* get_access_token calls in progress: position, manager, force_refresh, locals
    call,
    \* what the call that just ended handed its caller
    ret,
    \* history: the tokens the login endpoint has issued
    issued

cacheVars == <<_data, now, _lock, targ, lastGet, lastSetex>>
loginVars == <<resp, outcome>>
tmVars == <<cfg, mgr, call, ret, issued>>
vars == <<cacheVars, loginVars, tmVars>>

----------------------------------------------------------------------------
(* _InMemoryTokenCache *)

\* setex line 50: bytes pass through, anything else goes through str()
Payload(value) ==
    IF value.type \in {"bytes", "bytearray"} THEN Return(value)
    ELSE LET encoded == Utf8Encode(StrOf(value))
         IN IF encoded.ok THEN Return(PyBytes(encoded.v))
            ELSE Raise("UnicodeEncodeError")

\* an expiry test that also drops the entry at its expiry instant
ExpiredAtOrBefore(expires_at, t) == expires_at <= t

\* get line 43
Expired(expires_at, t) == expires_at < t

\* what get(key) returns at time t
GetValue(d, key, t) ==
    IF key \notin DOMAIN d THEN PyNone
    ELSE IF Expired(d[key].expires_at, t) THEN PyNone
    ELSE d[key].value

\* _data after get(key) at time t: an expired entry is popped
GetData(d, key, t) ==
    IF key \in DOMAIN d /\ Expired(d[key].expires_at, t)
      THEN [k \in DOMAIN d \ {key} |-> d[k]]
      ELSE d

\* a setex that replaces the payload of an entry already there but not its expiry
SetexDataKeepsExpiry(d, key, ttl_seconds, payload, t) ==
    [k \in DOMAIN d \cup {key} |->
        IF k = key
          THEN [expires_at |-> IF key \in DOMAIN d THEN d[key].expires_at
                               ELSE t + ttl_seconds,
                value |-> payload]
          ELSE d[k]]

\* _data after the locked part of setex at time t
SetexData(d, key, ttl_seconds, payload, t) ==
    [k \in DOMAIN d \cup {key} |->
        IF k = key THEN [expires_at |-> t + ttl_seconds, value |-> payload]
        ELSE d[k]]

----------------------------------------------------------------------------
(* The login exchange: TokenManager._login *)

\* "application/json"
ApplicationJson == <<97, 112, 112, 108, 105, 99, 97, 116, 105, 111, 110, 47, 106, 115, 111, 110>>
\* "Login failed: "
LoginFailedPrefix == <<76, 111, 103, 105, 110, 32, 102, 97, 105, 108, 101, 100, 58, 32>>
\* "Failed to call Skribble login endpoint: "
LoginCallFailedPrefix == <<70, 97, 105, 108, 101, 100, 32, 116, 111, 32, 99, 97, 108, 108, 32, 83, 107, 114, 105, 98, 98, 108, 101, 32, 108, 111, 103, 105, 110, 32, 101, 110, 100, 112, 111, 105, 110, 116, 58, 32>>
\* "Login succeeded but no access token found in response JSON."
NoTokenMessage == <<76, 111, 103, 105, 110, 32, 115, 117, 99, 99, 101, 101, 100, 101, 100, 32, 98, 117, 116, 32, 110, 111, 32, 97, 99, 99, 101, 115, 115, 32, 116, 111, 107, 101, 110, 32, 102, 111, 117, 110, 100, 32, 105, 110, 32, 114, 101, 115, 112, 111, 110, 115, 101, 32, 74, 83, 79, 78, 46>>
\* "Login succeeded but access token is empty."
EmptyTokenMessage == <<76, 111, 103, 105, 110, 32, 115, 117, 99, 99, 101, 101, 100, 101, 100, 32, 98, 117, 116, 32, 97, 99, 99, 101, 115, 115, 32, 116, 111, 107, 101, 110, 32, 105, 115, 32, 101, 109, 112, 116, 121, 46>>
\* the JSON field names
FieldAccessToken == <<97, 99, 99, 101, 115, 115, 95, 116, 111, 107, 101, 110>>
FieldToken == <<116, 111, 107, 101, 110>>
FieldJwt == <<106, 119, 116>>
FieldAuthAccessToken == <<65, 85, 84, 72, 95, 65, 67, 67, 69, 83, 83, 95, 84, 79, 75, 69, 78>>
FieldMessage == <<109, 101, 115, 115, 97, 103, 101>>
FieldError == <<101, 114, 114, 111, 114>>

\* needle in hay, of two str
Contains(needle, hay) ==
    \E i \in 1 .. (Len(hay) - Len(needle) + 1) :
        SubSeq(hay, i, i + Len(needle) - 1) = needle

\* the code points str.strip() removes: those for which str.isspace() is true
Whitespace ==
    {9, 10, 11, 12, 13, 28, 29, 30, 31, 32, 133, 160, 5760, 8232, 8233, 8239, 8287,
     12288} \cup (8192 .. 8202)

RECURSIVE LStrip(_)
LStrip(s) == IF s # <<>> /\ Head(s) \in Whitespace THEN LStrip(Tail(s)) ELSE s

RECURSIVE RStrip(_)
RStrip(s) ==
    IF s # <<>> /\ s[Len(s)] \in Whitespace THEN RStrip(SubSeq(s, 1, Len(s) - 1)) ELSE s

\* s.strip()
Strip(s) == RStrip(LStrip(s))

\* the order in which the server writes an object's fields
FieldOrder ==
    <<FieldAccessToken, FieldToken, FieldJwt, FieldAuthAccessToken, FieldMessage, FieldError>>

\* a hexadecimal digit, lower case
HexDigit(n) == IF n < 10 THEN 48 + n ELSE 87 + n

\* one code point inside a JSON string: the quote, the backslash and the control
\* characters are escaped
EscapeCodePoint(c) ==
    CASE c = 34 -> <<92, 34>>
      [] c = 92 -> <<92, 92>>
      [] c = 10 -> <<92, 110>>
      [] c = 13 -> <<92, 114>>
      [] c = 9 -> <<92, 116>>
      [] c = 8 -> <<92, 98>>
      [] c = 12 -> <<92, 102>>
      [] c < 32 /\ c \notin {8, 9, 10, 12, 13}
           -> <<92, 117, 48, 48, HexDigit(c \div 16), HexDigit(c % 16)>>
      [] OTHER -> <<c>>

RECURSIVE EscapeString(_)
EscapeString(s) ==
    IF s = <<>> THEN <<>> ELSE EscapeCodePoint(Head(s)) \o EscapeString(Tail(s))

\* a JSON string, integer or null, as the server writes it
DumpsScalar(x) ==
    CASE x.type = "str" -> <<34>> \o EscapeString(x.v) \o <<34>>
      [] x.type = "int" -> StrOf(x)
      [] OTHER -> <<110, 117, 108, 108>>

RECURSIVE DumpsItems(_, _)
\* the items of an array from position i on, as the server writes them
DumpsItems(l, i) ==
    IF i > Len(l) THEN <<>>
    ELSE (IF i = 1 THEN <<>> ELSE <<44, 32>>) \o DumpsScalar(l[i]) \o DumpsItems(l, i + 1)

RECURSIVE DumpsFields(_, _, _)
\* the fields of object f from position i of FieldOrder on, as the server writes them
DumpsFields(f, i, first) ==
    IF i > Len(FieldOrder) THEN <<>>
    ELSE IF FieldOrder[i] \in DOMAIN f
      THEN (IF first THEN <<>> ELSE <<44, 32>>)
           \o <<34>> \o FieldOrder[i] \o <<34, 58, 32>> \o DumpsScalar(f[FieldOrder[i]])
           \o DumpsFields(f, i + 1, FALSE)
      ELSE DumpsFields(f, i + 1, first)

\* the text of a JSON body
Dumps(x) ==
    CASE x.type = "dict" -> <<123>> \o DumpsFields(x.v, 1, TRUE) \o <<125>>
      [] x.type = "list" -> <<91>> \o DumpsItems(x.v, 1) \o <<93>>
      [] OTHER -> DumpsScalar(x)

\* resp.text
ResponseText(r) == IF r.body.kind = "json" THEN Dumps(r.body.value) ELSE r.body.text

\* resp.json(): the parsed body, or ok = FALSE for JSONDecodeError
ResponseJson(r) ==
    IF r.body.kind = "json" THEN [ok |-> TRUE, value |-> r.body.value]
    ELSE [ok |-> FALSE, value |-> PyNone]

\* resp.headers.get("Content-Type", "")
ContentType(r) == IF r.content_type = PyNone THEN <<>> ELSE r.content_type.v

\* data.get(name) of a dict
DictGet(d, name) == IF name \in DOMAIN d.v THEN d.v[name] ELSE PyNone

SkribbleAuthError(message) ==
    [kind |-> "raise", type |-> "SkribbleAuthError", message |-> message]
SkribbleHTTPError(status_code, message, response_json, response_text) ==
    [kind |-> "raise", type |-> "SkribbleHTTPError", status_code |-> status_code,
     message |-> message, response_json |-> response_json,
     response_text |-> response_text]

\* lines 123-136: a status other than 200
LoginFailure(r) ==
    LET text == ResponseText(r)
        parsed == ResponseJson(r)
    IN IF ~parsed.ok
         THEN SkribbleHTTPError(r.status_code, LoginFailedPrefix \o text, PyNone, text)
       ELSE IF parsed.value.type # "dict" THEN Raise("AttributeError")
       ELSE LET msg == PyOr(PyOr(DictGet(parsed.value, FieldMessage),
                                 DictGet(parsed.value, FieldError)),
                            PyStr(text))
            IN SkribbleHTTPError(r.status_code, LoginFailedPrefix \o StrOf(msg),
                                 parsed.value, text)

\* lines 144-149: the first field, in priority order, holding a true value
FieldLookup(data) ==
    PyOr(PyOr(PyOr(DictGet(data, FieldAccessToken), DictGet(data, FieldToken)),
              DictGet(data, FieldJwt)),
         DictGet(data, FieldAuthAccessToken))

\* lines 140-163: status 200
LoginSuccess(r) ==
    IF Contains(ApplicationJson, ContentType(r))
      THEN LET parsed == ResponseJson(r)
           IN IF ~parsed.ok THEN Raise("JSONDecodeError")
              ELSE IF parsed.value.type # "dict" THEN Raise("AttributeError")
              ELSE LET found == FieldLookup(parsed.value)
                       token == IF ~Truthy(found) /\ parsed.value.type = "str"
                                  THEN parsed.value ELSE found
                   IN IF ~Truthy(token) THEN SkribbleAuthError(NoTokenMessage)
                      ELSE Return(token)
      ELSE LET token == PyStr(Strip(ResponseText(r)))
           IN IF ~Truthy(token) THEN SkribbleAuthError(EmptyTokenMessage)
              ELSE Return(token)

\* TokenManager._login on what the session's post gave: a response or a RequestException
_login(r) ==
    IF r.kind = "exception"
      THEN SkribbleAuthError(LoginCallFailedPrefix \o r.description)
    ELSE IF r.status_code # 200 THEN LoginFailure(r)
    ELSE LoginSuccess(r)

----------------------------------------------------------------------------
(* The in-memory cache called directly by threads. *)

Threads == 1 .. NumThreads
Ttls == {-1, 0, 1}
\* "k", "l"
DirectKeys == {<<107>>, <<108>>}
\* b"b", 7, and a lone surrogate "\ud800"
DirectValues == {PyBytes(<<98>>), PyInt(7), PyStr(<<55296>>)}

NoGet == [type |-> "none"]
NoArgs == [op |-> "none"]

\* the variables the cache on its own never touches
LoginIdle == resp = PyNone /\ outcome = PyNone
NoRet == [type |-> "none"]
TMIdle ==
    /\ cfg = PyNone
    /\ mgr = <<>>
    /\ call = <<>>
    /\ ret = NoRet
    /\ issued = {}

InitCache ==
    /\ _data = <<>>
    /\ now = 0
    /\ _lock = 0
    /\ targ = NoArgs
    /\ lastGet = NoGet
    /\ lastSetex = <<>>
    /\ LoginIdle
    /\ TMIdle

\* lastSetex after a setex of payload under key at time t by writer w
Recorded(h, key, ttl_seconds, payload, t, w) ==
    [k \in DOMAIN h \cup {key} |->
        IF k = key
          THEN [time |-> t, ttl_seconds |-> ttl_seconds, value |-> payload, by |-> w]
          ELSE h[k]]

\* time.time() moves on
Tick ==
    /\ now < MaxTime
    /\ now' = now + 1
    /\ lastGet' = NoGet
    /\ ret' = NoRet
    /\ UNCHANGED <<_data, _lock, targ, lastSetex, loginVars, cfg, mgr, call, issued>>

\* a thread calls get(key) and takes the lock
EnterGet(t, key) ==
    /\ _lock = 0
    /\ _lock' = t
    /\ targ' = [op |-> "get", key |-> key]
    /\ lastGet' = NoGet
    /\ UNCHANGED <<_data, now, lastSetex, loginVars, tmVars>>

\* a thread that is not inside the cache calls setex(key, ttl_seconds, value): it
\* makes the payload (line 50), which raises at once for a value that cannot be
\* encoded, whoever holds the lock; otherwise it takes the lock once the lock is free
EnterSetex(t, key, ttl_seconds, value) ==
    /\ _lock # t
    /\ LET payload == Payload(value)
       IN IF payload.kind = "raise"
            THEN /\ lastGet' = [type |-> "setex", key |-> key, result |-> payload]
                 /\ UNCHANGED <<_lock, targ>>
            ELSE /\ _lock = 0
                 /\ _lock' = t
                 /\ targ' = [op |-> "setex", key |-> key, ttl_seconds |-> ttl_seconds,
                             payload |-> payload.value]
                 /\ lastGet' = NoGet
    /\ UNCHANGED <<_data, now, lastSetex, loginVars, tmVars>>

\* the locked body of get, and the release; lastGet is what the caller was handed
GetBody(t) ==
    /\ _lock = t
    /\ targ.op = "get"
    /\ _data' = GetData(_data, targ.key, now)
    /\ lastGet' = [type |-> "get", key |-> targ.key,
                   value |-> GetValue(_data, targ.key, now),
                   before |-> IF targ.key \in DOMAIN _data THEN _data[targ.key] ELSE PyNone]
    /\ _lock' = 0
    /\ targ' = NoArgs
    /\ UNCHANGED <<now, lastSetex, loginVars, tmVars>>

\* the locked body of setex, and the release
SetexBody(t) ==
    /\ _lock = t
    /\ targ.op = "setex"
    /\ _data' = SetexData(_data, targ.key, targ.ttl_seconds, targ.payload, now)
    /\ lastSetex' = Recorded(lastSetex, targ.key, targ.ttl_seconds, targ.payload, now, 0)
    /\ lastGet' = NoGet
    /\ _lock' = 0
    /\ targ' = NoArgs
    /\ UNCHANGED <<now, loginVars, tmVars>>

NextCache ==
    \/ Tick
    \/ \E t \in Threads, key \in DirectKeys : EnterGet(t, key)
    \/ \E t \in Threads, key \in DirectKeys, ttl \in Ttls, value \in DirectValues :
          EnterSetex(t, key, ttl, value)
    \/ \E t \in Threads : GetBody(t)
    \/ \E t \in Threads : SetexBody(t)

SpecCache == InitCache /\ [][NextCache]_vars

----------------------------------------------------------------------------
(* The login exchange on its own: every response of a small family. *)

TokenFields == {FieldAccessToken, FieldToken, FieldJwt, FieldAuthAccessToken}
MessageFields == {FieldMessage, FieldError}
\* "", "a", "b", null, and two values whose JSON text is not the value between
\* quotes: "a\"" and 7
FieldValues ==
    {PyStr(<<>>), PyStr(<<97>>), PyStr(<<98>>), PyNone, PyStr(<<97, 34>>), PyInt(7)}

Objects(fields) == UNION {[names -> FieldValues] : names \in SUBSET fields}

\* objects, and "a", "", null, []
JsonBodies ==
    {[kind |-> "json", value |-> PyDict(f)] :
        f \in Objects(TokenFields) \cup Objects(MessageFields)}
    \cup {[kind |-> "json", value |-> x] :
            x \in {PyStr(<<97>>), PyStr(<<>>), PyNone, PyList(<<>>)}}

\* "", " ", "a", "  raw-token  \n"
RawBodies ==
    {[kind |-> "raw", text |-> t] :
        t \in {<<>>, <<32>>, <<97>>, <<32, 32, 114, 97, 119, 45, 116, 111, 107, 101, 110, 32, 32, 10>>}}

\* no header, "application/json", "application/json; charset=utf-8", "text/plain"
ContentTypes ==
    {PyNone, PyStr(ApplicationJson), PyStr(ApplicationJson \o <<59, 32, 99, 104, 97, 114, 115, 101, 116, 61, 117, 116, 102, 45, 56>>),
     PyStr(<<116, 101, 120, 116, 47, 112, 108, 97, 105, 110>>)}

Responses ==
    {[kind |-> "response", status_code |-> st, content_type |-> ct, body |-> b] :
        st \in {200, 401, 500}, ct \in ContentTypes, b \in JsonBodies \cup RawBodies}

\* a RequestException: "timed out"
TransportFailures == {[kind |-> "exception", description |-> <<116, 105, 109, 101, 100, 32, 111, 117, 116>>]}

CacheIdle ==
    /\ _data = <<>> /\ now = 0 /\ _lock = 0 /\ targ = NoArgs
    /\ lastGet = NoGet /\ lastSetex = <<>>

InitLogin ==
    /\ resp \in Responses \cup TransportFailures
    /\ outcome = PyNone
    /\ CacheIdle
    /\ TMIdle

\* one call of _login
Login ==
    /\ outcome = PyNone
    /\ outcome' = _login(resp)
    /\ UNCHANGED <<resp, cacheVars, tmVars>>

NextLogin == Login

SpecLogin == InitLogin /\ [][NextLogin]_vars

----------------------------------------------------------------------------
(* Configuration and cache key. *)

\* config.py line 10
DEFAULT_ACCESS_TOKEN_TTL_SECONDS == 20 * 60
\* config.py line 25: "skribble"
DefaultPrefix == <<115, 107, 114, 105, 98, 98, 108, 101>>
\* ":token:"
TokenLiteral == <<58, 116, 111, 107, 101, 110, 58>>

\* a SkribbleConfig with the given token TTL: the fields the token path reads
SkribbleConfig(ttl) ==
    [access_token_ttl_seconds |-> ttl, redis_key_prefix |-> DefaultPrefix]

\* a configuration object that also has an attribute cache_key_prefix
PrefixedConfig(ttl, prefix) ==
    [access_token_ttl_seconds |-> ttl, redis_key_prefix |-> DefaultPrefix,
     cache_key_prefix |-> prefix]

\* lines 84-87, given the prefix
KeyOf(prefix, who) ==
    LET base == prefix \o TokenLiteral \o who.username
    IN IF Truthy(who.tenant_id) THEN base \o <<58>> \o who.tenant_id.v ELSE base

\* TokenManager._cache_key: the key, or the AttributeError of self._cfg.cache_key_prefix
_cache_key(c, who) ==
    IF "cache_key_prefix" \in DOMAIN c
      THEN Return(PyStr(KeyOf(c.cache_key_prefix, who)))
      ELSE Raise("AttributeError")

----------------------------------------------------------------------------
(* TokenManager.get_access_token *)

Managers == {1, 2}
Calls == 1 .. NumCalls

\* "u", "u:t", "t"
UserU == <<117>>
UserUT == <<117, 58, 116>>
TenantT == PyStr(<<116>>)

Who(username, tenant_id) == [username |-> username, tenant_id |-> tenant_id]

\* the two managers: the same account twice, two tenants of one user, a colon in the
\* user name
ManagerPairs ==
    {<<Who(UserU, PyNone), Who(UserU, PyNone)>>,
     <<Who(UserU, TenantT), Who(UserU, PyNone)>>,
     <<Who(UserUT, PyNone), Who(UserU, TenantT)>>}

Configs ==
    {SkribbleConfig(DEFAULT_ACCESS_TOKEN_TTL_SECONDS),
     PrefixedConfig(DEFAULT_ACCESS_TOKEN_TTL_SECONDS, DefaultPrefix),
     PrefixedConfig(1, DefaultPrefix)}

\* what the login endpoint answers here: a timeout, 401 {"message": "a"},
\* 200 {"access_token": "a"}, 200 text "é", 200 {"access_token": ""},
\* 200 {"access_token": "\ud800"} (a lone surrogate, which JSON can carry)
TMResponses ==
    TransportFailures
    \cup {[kind |-> "response", status_code |-> 401, content_type |-> PyStr(ApplicationJson),
           body |-> [kind |-> "json", value |-> PyDict([n \in {FieldMessage} |-> PyStr(<<97>>)])]],
          [kind |-> "response", status_code |-> 200, content_type |-> PyStr(ApplicationJson),
           body |-> [kind |-> "json",
                     value |-> PyDict([n \in {FieldAccessToken} |-> PyStr(<<97>>)])]],
          [kind |-> "response", status_code |-> 200, content_type |-> PyStr(<<116, 101, 120, 116, 47, 112, 108, 97, 105, 110>>),
           body |-> [kind |-> "raw", text |-> <<233>>]],
          [kind |-> "response", status_code |-> 200, content_type |-> PyStr(ApplicationJson),
           body |-> [kind |-> "json",
                     value |-> PyDict([n \in {FieldAccessToken} |-> PyStr(<<>>)])]],
          [kind |-> "response", status_code |-> 200, content_type |-> PyStr(ApplicationJson),
           body |-> [kind |-> "json",
                     value |-> PyDict([n \in {FieldAccessToken} |-> PyStr(<<55296>>)])]]}

\* what a test or another process puts in the cache: b"", "a", the four octets of
\* U+1F600, and three octets that are not UTF-8 (the surrogate U+D800, encoded)
PlantedValues ==
    {PyBytes(<<>>), PyStr(<<97>>), PyBytes(<<240, 159, 152, 128>>),
     PyBytes(<<237, 160, 128>>)}

IdleFrame ==
    [pc |-> "idle", mgr |-> 0, force |-> FALSE, token |-> PyNone, logins |-> 0,
     before |-> <<>>, chained |-> FALSE]

\* the record of a call that ended
Ended(f, key, path, result, cached, by) ==
    [type |-> "call", mgr |-> f.mgr, force |-> f.force, key |-> key, path |-> path,
     result |-> result, token |-> f.token, logins |-> f.logins, before |-> f.before,
     cached |-> cached, by |-> by, chained |-> f.chained]

\* the key the documentation gives manager m, <prefix>:token:<username>[:<tenant>],
\* the prefix being the one the configuration holds (config.py line 25)
DocumentedKey(m) ==
    cfg.redis_key_prefix \o TokenLiteral \o mgr[m].username
    \o (IF mgr[m].tenant_id # PyNone THEN <<58>> \o mgr[m].tenant_id.v ELSE <<>>)

DocumentedKeys == {DocumentedKey(m) : m \in Managers}

InitTM ==
    /\ cfg \in Configs
    /\ mgr \in {[m \in Managers |-> pair[m]] : pair \in ManagerPairs}
    /\ call = [c \in Calls |-> IdleFrame]
    /\ ret = NoRet
    /\ issued = {}
    /\ CacheIdle
    /\ LoginIdle

\* get_access_token(force_refresh=force) is called on manager m; calls run one at a time
Start(c, m, force) ==
    /\ \A d \in Calls : call[d].pc = "idle"
    /\ call' = [call EXCEPT ![c] =
                  [pc |-> IF force THEN "login" ELSE "get", mgr |-> m, force |-> force,
                   token |-> PyNone, logins |-> 0, before |-> _data,
                   chained |-> /\ ret.type = "call" /\ ret.mgr = m /\ ret.force
                               /\ ret.result.kind = "raise" /\ ret.logins = 1]]
    /\ ret' = NoRet
    /\ UNCHANGED <<cacheVars, loginVars, cfg, mgr, issued>>

\* get_access_token() is called on manager m while other calls may be in progress
StartConcurrent(c, m) ==
    /\ call[c].pc = "idle"
    /\ call' = [call EXCEPT ![c] =
                  [pc |-> "get", mgr |-> m, force |-> FALSE, token |-> PyNone,
                   logins |-> 0, before |-> <<>>, chained |-> FALSE]]
    /\ ret' = NoRet
    /\ UNCHANGED <<cacheVars, loginVars, cfg, mgr, issued>>

\* lines 94-96: the cache lookup (one locked get) and, on a hit, the decoded return
Get(c) ==
    /\ call[c].pc = "get"
    /\ LET f == call[c]
           key == _cache_key(cfg, mgr[f.mgr])
       IN IF key.kind = "raise"
            THEN /\ ret' = Ended(f, key, "error", key, PyNone, 0)
                 /\ call' = [call EXCEPT ![c] = IdleFrame]
                 /\ UNCHANGED _data
            ELSE LET cached == GetValue(_data, key.value.v, now)
                     decoded == Utf8Decode(cached.v)
                     by == IF key.value.v \in DOMAIN lastSetex
                             THEN lastSetex[key.value.v].by ELSE 0
                 IN /\ _data' = GetData(_data, key.value.v, now)
                    /\ IF Truthy(cached)
                         THEN /\ ret' = Ended(f, key, "hit",
                                              IF decoded.ok THEN Return(PyStr(decoded.v))
                                              ELSE Raise("UnicodeDecodeError"),
                                              cached, by)
                              /\ call' = [call EXCEPT ![c] = IdleFrame]
                         ELSE /\ ret' = NoRet
                              /\ call' = [call EXCEPT ![c].pc = "login"]
    /\ UNCHANGED <<now, _lock, targ, lastGet, lastSetex, loginVars, cfg, mgr, issued>>

\* line 98: one login exchange, answered by r
DoLogin(c, r) ==
    /\ call[c].pc = "login"
    /\ LET f == [call[c] EXCEPT !.logins = @ + 1]
           o == _login(r)
       IN IF o.kind = "raise"
            THEN /\ ret' = Ended(f, PyNone, "refresh", o, PyNone, 0)
                 /\ call' = [call EXCEPT ![c] = IdleFrame]
                 /\ UNCHANGED issued
            ELSE /\ ret' = NoRet
                 /\ call' = [call EXCEPT ![c] = [f EXCEPT !.pc = "setex", !.token = o.value]]
                 /\ issued' = issued \cup {o.value}
    /\ UNCHANGED <<cacheVars, loginVars, cfg, mgr>>

\* lines 100-101: the token is stored (one locked setex) and returned; the key is
\* evaluated first, then setex makes the payload, and either can raise
Setex(c) ==
    /\ call[c].pc = "setex"
    /\ LET f == call[c]
           key == _cache_key(cfg, mgr[f.mgr])
           payload == Payload(f.token)
       IN IF key.kind = "raise"
            THEN /\ ret' = Ended(f, key, "refresh", key, PyNone, 0)
                 /\ UNCHANGED <<_data, lastSetex>>
          ELSE IF payload.kind = "raise"
            THEN /\ ret' = Ended(f, key, "refresh", payload, PyNone, 0)
                 /\ UNCHANGED <<_data, lastSetex>>
            ELSE /\ _data' = SetexData(_data, key.value.v, cfg.access_token_ttl_seconds,
                                       payload.value, now)
                 /\ lastSetex' = Recorded(lastSetex, key.value.v,
                                          cfg.access_token_ttl_seconds,
                                          payload.value, now, f.mgr)
                 /\ ret' = Ended(f, key, "refresh", Return(f.token), PyNone, 0)
    /\ call' = [call EXCEPT ![c] = IdleFrame]
    /\ UNCHANGED <<now, _lock, targ, lastGet, loginVars, cfg, mgr, issued>>

\* a test or another process stores a value under a manager's key, between calls
Plant(key, ttl_seconds, value) ==
    /\ \A d \in Calls : call[d].pc = "idle"
    /\ Payload(value).kind = "return"
    /\ _data' = SetexData(_data, key, ttl_seconds, Payload(value).value, now)
    /\ lastSetex' = Recorded(lastSetex, key, ttl_seconds, Payload(value).value, now, 0)
    /\ ret' = NoRet
    /\ UNCHANGED <<now, _lock, targ, lastGet, loginVars, cfg, mgr, call, issued>>

Next ==
    \/ Tick
    \/ \E m \in Managers, force \in BOOLEAN : Start(1, m, force)
    \/ Get(1)
    \/ \E r \in TMResponses : DoLogin(1, r)
    \/ Setex(1)
    \/ \E key \in DocumentedKeys, ttl \in {1}, value \in PlantedValues :
          Plant(key, ttl, value)

Spec == InitTM /\ [][Next]_vars

\* concurrent calls on managers sharing one cache entry, empty at the start
InitRace ==
    /\ InitTM
    /\ DocumentedKey(1) = DocumentedKey(2)

\* the callers alternate between the two managers
CallerOf(c) == IF c % 2 = 1 THEN 1 ELSE 2

NextRace ==
    \/ Tick
    \/ \E c \in Calls : StartConcurrent(c, CallerOf(c))
    \/ \E c \in Calls : Get(c)
    \/ \E c \in Calls, r \in TMResponses : DoLogin(c, r)
    \/ \E c \in Calls : Setex(c)

SpecRace == InitRace /\ [][NextRace]_vars

----------------------------------------------------------------------------
(* Properties. *)

\* the str s encodes, and to exactly the bytes object b
EncodesTo(s, b) == Utf8Encode(s).ok /\ PyBytes(Utf8Encode(s).v) = b

\* what get would hand out at time t: the entries that have not expired
Visible(d, t) == [k \in {x \in DOMAIN d : d[x].expires_at >= t} |-> d[k].value]

\* the call that just ended found, when it started, a non-empty, unexpired, valid
\* UTF-8 value under its manager's cache key
FoundCached ==
    /\ ret.type = "call"
    /\ LET key == DocumentedKey(ret.mgr)
       IN /\ key \in DOMAIN ret.before
          /\ ret.before[key].expires_at >= now
          /\ Len(ret.before[key].value.v) > 0
          /\ Utf8Decode(ret.before[key].value.v).ok

\* the bytes under the key of the call that just ended, when it started
CachedBefore == ret.before[DocumentedKey(ret.mgr)].value

\* the configuration object has the attribute _cache_key reads
HasCacheKeyPrefix == "cache_key_prefix" \in DOMAIN cfg

\* C1: get_access_token(force_refresh=false) of a manager whose cache holds a
\* non-empty, unexpired value (valid UTF-8) under the manager's cache key returns
\* exactly that value decoded, makes no login call and leaves the cache unchanged.
C1_CacheHitReturnsCached ==
    (FoundCached /\ ~ret.force) =>
        /\ ret.result.kind = "return"
        /\ ret.result.value.type = "str"
        /\ EncodesTo(ret.result.value.v, CachedBefore)
        /\ ret.logins = 0
        /\ _data = ret.before

\* the same, for a configuration object that has cache_key_prefix
HitWithPrefix == HasCacheKeyPrefix => C1_CacheHitReturnsCached

\* a call was served the cached two-octet token "é" without a login
HitReached ==
    /\ FoundCached /\ ~ret.force
    /\ ret.path = "hit"
    /\ ret.result = Return(PyStr(<<233>>))
    /\ ret.cached = PyBytes(<<195, 169>>)

\* C2: a call that takes the refresh path and whose login succeeds makes exactly one
\* login, stores the fresh token under the manager's cache key with the configured
\* TTL, overwriting what was there, and returns that token; a get on the key right
\* after yields bytes decoding to the returned token.
C2_RefreshStoresAndReturns ==
    (ret.type = "call" /\ ret.token # PyNone) =>
        LET key == DocumentedKey(ret.mgr)
        IN /\ ret.logins = 1
           /\ ret.result = Return(ret.token)
           /\ key \in DOMAIN _data
           /\ _data[key].expires_at = now + cfg.access_token_ttl_seconds
           /\ EncodesTo(ret.token.v, GetValue(_data, key, now))

\* the same, for a configuration object that has cache_key_prefix and a token that
\* UTF-8 can encode
RefreshWithPrefix ==
    (HasCacheKeyPrefix /\ ret.type = "call" /\ ret.token # PyNone
       /\ Utf8Encode(ret.token.v).ok)
      => C2_RefreshStoresAndReturns

\* C3: every login exchange ends in one of the specified outcomes: a transport
\* failure raises SkribbleAuthError; a status other than 200 raises SkribbleHTTPError
\* with that status and the message "Login failed: <m>", m being the body's "message"
\* field, else its "error" field, else the raw text when the body is not JSON; a
\* status 200 returns a non-empty token or raises SkribbleAuthError.  No other error
\* escapes and no empty token is returned.
C3_LoginOutcomes ==
    outcome # PyNone =>
        IF resp.kind = "exception"
          THEN outcome.kind = "raise" /\ outcome.type = "SkribbleAuthError"
        ELSE IF resp.status_code # 200
          THEN /\ outcome.kind = "raise"
               /\ outcome.type = "SkribbleHTTPError"
               /\ outcome.status_code = resp.status_code
               /\ LET body == resp.body
                  IN /\ body.kind = "raw" => outcome.message = LoginFailedPrefix \o body.text
                     /\ (body.kind = "json" /\ body.value.type = "dict"
                         /\ Truthy(DictGet(body.value, FieldMessage)))
                          => outcome.message
                               = LoginFailedPrefix \o StrOf(DictGet(body.value, FieldMessage))
                     /\ (body.kind = "json" /\ body.value.type = "dict"
                         /\ FieldMessage \notin DOMAIN body.value.v
                         /\ Truthy(DictGet(body.value, FieldError)))
                          => outcome.message
                               = LoginFailedPrefix \o StrOf(DictGet(body.value, FieldError))
        ELSE \/ outcome.kind = "return" /\ Truthy(outcome.value)
             \/ outcome.kind = "raise" /\ outcome.type = "SkribbleAuthError"

\* the login that just failed: the call made a login and got no token from it
LoginFailed ==
    /\ ret.type = "call"
    /\ ret.path = "refresh"
    /\ ret.result.kind = "raise"
    /\ ret.token = PyNone

\* C4: when the login of a call fails, the failure reaches the caller after exactly
\* one network call, nothing was written to the cache (what it holds is what it held
\* before the call), and a token cached before a failed force_refresh=true call is
\* returned by the next force_refresh=false call.
C4_FailedLoginLeavesCache ==
    /\ LoginFailed =>
          /\ ret.logins = 1
          /\ Visible(_data, now) = Visible(ret.before, now)
          /\ ret.force => _data = ret.before
    /\ (FoundCached /\ ~ret.force /\ ret.chained) =>
          /\ ret.result.kind = "return"
          /\ EncodesTo(ret.result.value.v, CachedBefore)
          /\ ret.logins = 0

\* the same, for a configuration object that has cache_key_prefix
FailedLoginWithPrefix == HasCacheKeyPrefix => C4_FailedLoginLeavesCache

\* a forced refresh failed while a token was cached, and the token is still there
FailedLoginReached ==
    /\ LoginFailed /\ ret.force /\ FoundCached
    /\ ret.logins = 1
    /\ Visible(_data, now) # <<>>

\* C5: two managers on one cache and one prefix whose (username, tenant) differ have
\* different keys, so neither is ever handed by get_access_token a token the other
\* one cached.
C5_NoCrossRead ==
    (ret.type = "call" /\ ret.path = "hit" /\ ret.by # 0) =>
        mgr[ret.by] = mgr[ret.mgr]

\* C6: every cache access of a manager built with a SkribbleConfig uses the key
\* <prefix>:token:<username>, followed by :<tenant> exactly when a tenant was
\* supplied, <prefix> being the prefix the configuration holds.
C6_KeyFormat ==
    (ret.type = "call" /\ ret.key # PyNone) =>
        ret.key = Return(PyStr(DocumentedKey(ret.mgr)))

\* the same, for a configuration object that has cache_key_prefix
KeyFormatWithPrefix == HasCacheKeyPrefix => C6_KeyFormat

\* the first token field, in priority order, that the object has
FirstPresent(obj) ==
    IF FieldAccessToken \in DOMAIN obj.v THEN obj.v[FieldAccessToken]
    ELSE IF FieldToken \in DOMAIN obj.v THEN obj.v[FieldToken]
    ELSE IF FieldJwt \in DOMAIN obj.v THEN obj.v[FieldJwt]
    ELSE IF FieldAuthAccessToken \in DOMAIN obj.v THEN obj.v[FieldAuthAccessToken]
    ELSE PyNone

\* C7: for a status-200 JSON response the token is the value under the first of
\* access_token, token, jwt, AUTH_ACCESS_TOKEN that is present, and when none is
\* present and the body is a JSON string, that string; for a status-200 response of
\* another content type it is the body text stripped.  (Stated for the cases where
\* that value is a non-empty string.)
C7_Extraction ==
    (outcome # PyNone /\ resp.kind = "response" /\ resp.status_code = 200) =>
        IF Contains(ApplicationJson, ContentType(resp))
          THEN /\ (resp.body.kind = "json" /\ resp.body.value.type = "dict"
                   /\ Truthy(FirstPresent(resp.body.value)))
                    => outcome = Return(FirstPresent(resp.body.value))
               /\ (resp.body.kind = "json" /\ resp.body.value.type = "str"
                   /\ Truthy(resp.body.value))
                    => outcome = Return(resp.body.value)
          ELSE Strip(ResponseText(resp)) # <<>>
                 => outcome = Return(PyStr(Strip(ResponseText(resp))))

\* C8: concurrent get_access_token() calls on managers sharing one cache entry that
\* starts empty: every call either hits or misses that entry; a call that misses
\* makes exactly one login and, that login having given a token, returns the token
\* of its own login; a call that hits returns a token an earlier login issued; the
\* entry always holds a whole token some login issued; and once every call has
\* returned, what is cached is what the last setex wrote.
C8_RacingCalls ==
    /\ ret.type = "call" => ret.path \in {"hit", "refresh"}
    /\ (ret.type = "call" /\ ret.path = "refresh") => ret.logins = 1
    /\ (ret.type = "call" /\ ret.path = "refresh" /\ ret.token # PyNone) =>
          ret.token \in issued /\ ret.result = Return(ret.token)
    /\ (ret.type = "call" /\ ret.path = "hit") =>
          /\ ret.logins = 0
          /\ ret.result.kind = "return"
          /\ ret.result.value \in issued
          /\ ret.by \in Managers
    /\ \A k \in DOMAIN _data :
          \E tok \in issued : EncodesTo(tok.v, _data[k].value)
    /\ (\A c \in Calls : call[c].pc = "idle") =>
          \A k \in DOMAIN _data :
              /\ k \in DOMAIN lastSetex
              /\ _data[k].value = lastSetex[k].value
              /\ _data[k].expires_at = lastSetex[k].time + lastSetex[k].ttl_seconds

\* the same, for a configuration object that has cache_key_prefix and tokens that
\* UTF-8 can encode
RacingCallsWithPrefix ==
    (HasCacheKeyPrefix /\ \A tok \in issued : Utf8Encode(tok.v).ok) => C8_RacingCalls

\* two calls are in flight at once, both have missed and both have logged in, with
\* different tokens, and neither has stored yet
RaceReached ==
    /\ call[1].pc = "setex" /\ call[2].pc = "setex"
    /\ call[1].token # call[2].token
    /\ _data = <<>>

\* with the default TTL, under which nothing expires here, two logins gave different
\* tokens that were both stored: the second Get came before the first Setex, the
\* later Setex overwrote the earlier, and the call that stored last has returned its
\* own token, the one now cached
OverwriteReached ==
    /\ HasCacheKeyPrefix
    /\ cfg.access_token_ttl_seconds = DEFAULT_ACCESS_TOKEN_TTL_SECONDS
    /\ ret.type = "call" /\ ret.path = "refresh" /\ ret.result = Return(ret.token)
    /\ \A c \in Calls : call[c].pc = "idle"
    /\ \A tok \in issued : Utf8Encode(tok.v).ok
    /\ Cardinality(issued) = 2
    /\ \A k \in DOMAIN _data : EncodesTo(ret.token.v, _data[k].value)
    /\ _data # <<>>

\* C9, as claimed: get on an entry whose expiry instant is at or before the current
\* time removes the entry and returns nothing (so an entry stored with ttl 0 is
\* absent on the next get even at the same instant).
C9_ExpiredAtOrBeforeNow ==
    (lastGet.type = "get" /\ lastGet.before # PyNone
       /\ lastGet.before.expires_at <= now) =>
        /\ lastGet.value = PyNone
        /\ lastGet.key \notin DOMAIN _data

\* C9, amended: get on an entry whose expiry instant is before the current time
\* removes the entry and returns nothing; an entry whose expiry instant is the
\* current time or later is returned and stays, so an entry stored with ttl 0 is
\* still returned by a get at the instant of the setex.
C9_ExpiredBeforeNow ==
    (lastGet.type = "get" /\ lastGet.before # PyNone) =>
        /\ lastGet.before.expires_at < now =>
              /\ lastGet.value = PyNone
              /\ lastGet.key \notin DOMAIN _data
        /\ lastGet.before.expires_at >= now =>
              /\ lastGet.value = lastGet.before.value
              /\ lastGet.key \in DOMAIN _data
              /\ _data[lastGet.key] = lastGet.before

\* C9 witness: an entry stored with ttl 0 was read at the instant of its setex
C9_Witness ==
    /\ lastGet.type = "get"
    /\ lastGet.before # PyNone
    /\ lastGet.before.expires_at = now
    /\ lastSetex[lastGet.key].ttl_seconds = 0
    /\ lastSetex[lastGet.key].time = now
    /\ lastGet.value # PyNone

\* C10: there is one entry per key, the one the most recent setex for the key stored,
\* and a payload get returns is that setex's payload, returned no later than that
\* setex's time plus its ttl_seconds.
C10_NeverReturnedPastExpiry ==
    /\ \A k \in DOMAIN _data :
          /\ k \in DOMAIN lastSetex
          /\ _data[k] = [expires_at |-> lastSetex[k].time + lastSetex[k].ttl_seconds,
                         value |-> lastSetex[k].value]
    /\ (lastGet.type = "get" /\ lastGet.value # PyNone) =>
          /\ lastGet.key \in DOMAIN lastSetex
          /\ lastGet.value = lastSetex[lastGet.key].value
          /\ lastGet.value.type = "bytes"
          /\ now <= lastSetex[lastGet.key].time + lastSetex[lastGet.key].ttl_seconds

\* C10 witness: a payload was returned after the clock moved on from its setex, which
\* was itself issued after the clock had moved
C10_Witness ==
    /\ lastGet.type = "get"
    /\ lastGet.value # PyNone
    /\ lastSetex[lastGet.key].time > 0
    /\ now > lastSetex[lastGet.key].time

====
